---- MODULE Spec2Model ----
(***************************************************************************)
(* Model of createSTcode.py (build_pac_files): the per-project register    *)
(* allocator/reconciler, its persisted master maps and the generated       *)
(* outputs.  Strings are sequences of one-character strings so that        *)
(* strip(), upper(), lower() and the regular-expression substitutions are  *)
(* computed character by character as the script computes them.            *)
(***************************************************************************)
EXTENDS Integers, Sequences, FiniteSets, TLC

(* ------------------------------------------------------------------ *)
(* Bounds of the model                                                  *)
(* ------------------------------------------------------------------ *)
\* rows read from the input CSV in one run
MaxRows == 2
\* consecutive invocations of the script
MaxRuns == 2

(* ------------------------------------------------------------------ *)
(* Characters and strings                                               *)
(* ------------------------------------------------------------------ *)
LowerLetters == <<"a","b","c","d","e","f","g","h","i","j","k","l","m",
                  "n","o","p","q","r","s","t","u","v","w","x","y","z">>
UpperLetters == <<"A","B","C","D","E","F","G","H","I","J","K","L","M",
                  "N","O","P","Q","R","S","T","U","V","W","X","Y","Z">>
DigitChars == <<"0","1","2","3","4","5","6","7","8","9">>

RangeOf(s) == {s[i] : i \in 1..Len(s)}

IndexIn(s, c) == CHOOSE i \in 1..Len(s) : s[i] = c

LowerSet == RangeOf(LowerLetters)
UpperSet == RangeOf(UpperLetters)
DigitSet == RangeOf(DigitChars)

IsLower(c) == c \in LowerSet
IsUpper(c) == c \in UpperSet
IsDigit(c) == c \in DigitSet
IsSpace(c) == c \in {" ", "\t", "\n", "\r"}

\* code point of a character (str comparison in sorted())
CharCode(c) ==
    IF IsLower(c) THEN 96 + IndexIn(LowerLetters, c)
    ELSE IF IsUpper(c) THEN 64 + IndexIn(UpperLetters, c)
    ELSE IF IsDigit(c) THEN 47 + IndexIn(DigitChars, c)
    ELSE CASE c = "\t" -> 9 [] c = "\n" -> 10 [] c = "\r" -> 13
           [] c = " " -> 32 [] c = "\"" -> 34 [] c = "%" -> 37
           [] c = "'" -> 39 [] c = "(" -> 40 [] c = ")" -> 41
           [] c = "*" -> 42 [] c = "+" -> 43 [] c = "," -> 44
           [] c = "-" -> 45 [] c = "." -> 46 [] c = "/" -> 47
           [] c = "_" -> 95

ToUpper == [c \in LowerSet |-> UpperLetters[IndexIn(LowerLetters, c)]]
ToLower == [c \in UpperSet |-> LowerLetters[IndexIn(UpperLetters, c)]]

UpperChar(c) == IF IsLower(c) THEN ToUpper[c] ELSE c
LowerChar(c) == IF IsUpper(c) THEN ToLower[c] ELSE c

\* str.upper() / str.lower()
Upper(s) == [i \in 1..Len(s) |-> UpperChar(s[i])]
Lower(s) == [i \in 1..Len(s) |-> LowerChar(s[i])]

RECURSIVE LStrip(_)
LStrip(s) == IF s # <<>> /\ IsSpace(Head(s)) THEN LStrip(Tail(s)) ELSE s

RECURSIVE RStrip(_)
RStrip(s) == IF s # <<>> /\ IsSpace(s[Len(s)])
             THEN RStrip(SubSeq(s, 1, Len(s) - 1)) ELSE s

\* str.strip()
Strip(s) == RStrip(LStrip(s))

\* x or default
OrElse(s, d) == IF s = <<>> THEN d ELSE s

\* str.startswith(p)
StartsWith(s, p) == Len(s) >= Len(p) /\ SubSeq(s, 1, Len(p)) = p

\* s < t for Python strings (lexicographic on code points)
RECURSIVE StrLess(_, _)
StrLess(s, t) ==
    IF t = <<>> THEN FALSE
    ELSE IF s = <<>> THEN TRUE
    ELSE IF Head(s) # Head(t) THEN CharCode(Head(s)) < CharCode(Head(t))
    ELSE StrLess(Tail(s), Tail(t))

\* s < t for tuples of strings (lexicographic on the components)
RECURSIVE TupleLess(_, _)
TupleLess(s, t) ==
    IF t = <<>> THEN FALSE
    ELSE IF s = <<>> THEN TRUE
    ELSE IF Head(s) # Head(t) THEN StrLess(Head(s), Head(t))
    ELSE TupleLess(Tail(s), Tail(t))

\* sorted(set of tuples of strings)
RECURSIVE SortedSeq(_)
SortedSeq(S) ==
    IF S = {} THEN <<>>
    ELSE LET m == CHOOSE x \in S : \A y \in S \ {x} : TupleLess(x, y)
         IN  <<m>> \o SortedSeq(S \ {m})

\* str.replace(old, new), non-overlapping, left to right
RECURSIVE Replace(_, _, _)
Replace(s, old, new) ==
    IF s = <<>> THEN <<>>
    ELSE IF StartsWith(s, old)
         THEN new \o Replace(SubSeq(s, Len(old) + 1, Len(s)), old, new)
         ELSE <<Head(s)>> \o Replace(Tail(s), old, new)

(* ------------------------------------------------------------------ *)
(* Program constants                                                    *)
(* ------------------------------------------------------------------ *)
\* NEEDED: loose header keys (lower-case, no spaces)
NEEDED == [proj |-> <<"p","r","o","j","e","c","t","n","a","m","e">>,
           tag  |-> <<"p","l","c","t","a","g">>,
           reg  |-> <<"r","e","g","i","s","t","e","r","p","l","c">>,
           name |-> <<"n","a","m","e">>,
           type |-> <<"d","a","t","a","t","y","p","e">>,
           desc |-> <<"d","e","s","c","r","i","p","t","i","o","n">>,
           init |-> <<"i","n","i","t","i","a","l","v","a","l","u","e">>]

DEFAULT == <<"D","E","F","A","U","L","T">>
T_BOOL    == <<"B","O","O","L">>
T_INT     == <<"I","N","T">>
T_WORD    == <<"W","O","R","D">>
T_STRING  == <<"S","T","R","I","N","G">>

\* the accepted types with REAL among them
KnownTypesAndReal == {T_BOOL, T_INT, T_WORD, T_STRING, <<"R","E","A","L">>}

\* the data types the row loop accepts
KnownTypes == {T_BOOL, T_INT, T_WORD, T_STRING}

\* the values st_literal takes for a true T_BOOL
TrueWords == {<<"1">>, <<"T","R","U","E">>, <<"T">>, <<"Y","E","S">>}

\* PLC areas mirrored into a register / out of a register
InAreas  == {<<"%","I">>, <<"%","A","I">>, <<"%","R">>, <<"%","M">>}
OutAreas == {<<"%","Q">>, <<"%","A","Q">>}

(* ------------------------------------------------------------------ *)
(* Helpers of the script                                                *)
(* ------------------------------------------------------------------ *)
\* re.sub(r"\s+", "", h)
RECURSIVE RemoveSpaces(_)
RemoveSpaces(s) ==
    IF s = <<>> THEN <<>>
    ELSE IF IsSpace(Head(s)) THEN RemoveSpaces(Tail(s))
    ELSE <<Head(s)>> \o RemoveSpaces(Tail(s))

\* hmap: the stripped-lower forms of the header cells
HeaderKeys(fieldnames) ==
    {Lower(RemoveSpaces(fieldnames[i])) : i \in 1..Len(fieldnames)}

\* missing = [k for k in NEEDED if NEEDED[k] not in hmap]
MissingColumns(fieldnames) ==
    LET hmap == HeaderKeys(fieldnames)
    IN  {k \in DOMAIN NEEDED : NEEDED[k] \notin hmap}

IsWordChar(c) == IsLower(c) \/ IsUpper(c) \/ IsDigit(c) \/ c = "_"

\* st_safe
st_safe(text) ==
    LET t == Strip(text)
        u == [i \in 1..Len(t) |-> IF IsWordChar(t[i]) THEN t[i] ELSE "_"]
    IN  Upper(IF u # <<>> /\ IsDigit(u[1]) THEN <<"X","_">> \o u
              ELSE OrElse(u, <<"X">>))

\* esc_comment
esc_comment(txt) == Strip(Replace(txt, <<"*",")">>, <<")","*">>))

\* value of one digit in a base, -1 when it is no digit of that base
DigitValue(c, base) ==
    LET v == IF IsDigit(c) THEN IndexIn(DigitChars, c) - 1
             ELSE IF IsLower(c) THEN 9 + IndexIn(LowerLetters, c)
             ELSE IF IsUpper(c) THEN 9 + IndexIn(UpperLetters, c)
             ELSE 0 - 1
    IN  IF v >= 0 /\ v < base THEN v ELSE 0 - 1

\* digits with single underscores between them, in a base; -1 when malformed
RECURSIVE DigitsValue(_, _, _, _)
DigitsValue(s, base, acc, prevDigit) ==
    IF s = <<>> THEN (IF prevDigit THEN acc ELSE 0 - 1)
    ELSE IF Head(s) = "_"
         THEN IF prevDigit THEN DigitsValue(Tail(s), base, acc, FALSE) ELSE 0 - 1
    ELSE IF DigitValue(Head(s), base) < 0 THEN 0 - 1
    ELSE DigitsValue(Tail(s), base, acc * base + DigitValue(Head(s), base), TRUE)

\* int(val, 0) inside try/except ValueError: num = 0
IntBase0(val) ==
    LET t    == Strip(val)
        neg  == t # <<>> /\ Head(t) = "-"
        body == IF t # <<>> /\ Head(t) \in {"-", "+"} THEN Tail(t) ELSE t
        pre  == IF Len(body) >= 2 /\ body[1] = "0" THEN LowerChar(body[2]) ELSE ""
        base == CASE pre = "x" -> 16 [] pre = "o" -> 8 [] pre = "b" -> 2 [] OTHER -> 10
        digs == IF base = 10 THEN body ELSE SubSeq(body, 3, Len(body))
        \* after a base prefix one underscore may come first
        d2   == IF base # 10 /\ digs # <<>> /\ Head(digs) = "_" THEN Tail(digs) ELSE digs
        v    == DigitsValue(d2, base, 0, FALSE)
        \* a decimal numeral with a leading zero is accepted only when it is zero
        ok   == v >= 0 /\ (base = 10 /\ Len(body) > 1 /\ body[1] = "0" => v = 0)
    IN  IF ~ok THEN 0 ELSE IF neg THEN 0 - v ELSE v

\* f"{num}" for num >= 0
RECURSIVE Decimal(_)
Decimal(n) ==
    IF n < 10 THEN <<DigitChars[n + 1]>>
    ELSE Decimal(n \div 10) \o <<DigitChars[(n % 10) + 1]>>

FormatInt(n) == IF n < 0 THEN <<"-">> \o Decimal(0 - n) ELSE Decimal(n)

\* st_literal comparing the BOOL value as written, without upper()
st_literalAsWritten(dtyp, val0) ==
    LET val == Strip(val0)
    IN  IF dtyp = T_BOOL
        THEN (IF val \in TrueWords THEN <<"1">> ELSE <<"0">>)
        ELSE IF dtyp = T_STRING
        THEN <<"\"">> \o Replace(val, <<"'">>, <<"'","'">>) \o <<"\"">>
        ELSE IF dtyp \in {T_INT, T_WORD}
        THEN FormatInt(IntBase0(val))
        ELSE OrElse(val, <<"0">>)

\* st_literal
st_literal(dtyp, val0) ==
    LET val == Strip(val0)
    IN  IF dtyp = T_BOOL
        THEN (IF Upper(val) \in TrueWords THEN <<"1">> ELSE <<"0">>)
        ELSE IF dtyp = T_STRING
        THEN <<"\"">> \o Replace(val, <<"'">>, <<"'","'">>) \o <<"\"">>
        ELSE IF dtyp \in {T_INT, T_WORD}
        THEN FormatInt(IntBase0(val))
        ELSE OrElse(val, <<"0">>)

IsFileChar(c) == IsLower(c) \/ IsUpper(c) \/ IsDigit(c) \/ c \in {"_", ".", "-"}

\* re.sub(r"[^A-Za-z0-9_.-]+", "_", s): every run of other characters -> "_"
RECURSIVE SubUnsafe(_, _)
SubUnsafe(s, inRun) ==
    IF s = <<>> THEN <<>>
    ELSE IF IsFileChar(Head(s)) THEN <<Head(s)>> \o SubUnsafe(Tail(s), FALSE)
    ELSE IF inRun THEN SubUnsafe(Tail(s), TRUE)
    ELSE <<"_">> \o SubUnsafe(Tail(s), TRUE)

\* _proj_safe
ProjSafe(proj) == OrElse(SubUnsafe(Strip(OrElse(proj, DEFAULT)), FALSE), DEFAULT)

\* map_path_for
map_path_for(proj) ==
    <<"g","l","o","b","a","l","_","m","a","p","s","/">> \o ProjSafe(proj)
      \o <<"_","g","l","o","b","a","l","_","i","o","_","m","a","p",".","c","s","v">>

\* the three output paths of a project
MapStPath(proj)  == proj \o <<"_","m","a","p",".","s","t">>
RvarsPath(proj)  == proj \o <<"_","R","v","a","r","s",".","c","s","v">>
InitStPath(proj) == proj \o <<"_","i","n","i","t",".","s","t">>

(* ------------------------------------------------------------------ *)
(* Dictionaries and the master map file                                 *)
(* ------------------------------------------------------------------ *)
\* d[k] = v
Put(d, k, v) == [x \in DOMAIN d \cup {k} |-> IF x = k THEN v ELSE d[x]]

\* defaultdict access d[k]
GetOr(d, k, default) == IF k \in DOMAIN d THEN d[k] ELSE default

EmptyDict == <<>>

\* LoadRows with the two columns read in the wrong order
RECURSIVE LoadRowsSwapped(_, _)
LoadRowsSwapped(file, acc) ==
    IF file = <<>> THEN acc
    ELSE LET plc == file[1][2]
             r   == file[1][1]
         IN  LoadRowsSwapped(Tail(file),
                      IF plc # <<>> /\ r # <<>>
                      THEN Put(acc, Upper(Strip(plc)), Upper(Strip(r)))
                      ELSE acc)

\* the dict comprehension of ensure_loaded over the rows of the csv reader
RECURSIVE LoadRows(_, _)
LoadRows(file, acc) ==
    IF file = <<>> THEN acc
    ELSE LET plc == file[1][1]
             r   == file[1][2]
         IN  LoadRows(Tail(file),
                      IF plc # <<>> /\ r # <<>>
                      THEN Put(acc, Upper(Strip(plc)), Upper(Strip(r)))
                      ELSE acc)

\* sorted(mapping.items()) written row by row
MapRows(mapping) == SortedSeq({<<t, mapping[t]>> : t \in DOMAIN mapping})

\* ensure_loaded without the "if proj in _loaded: return" guard: the file is
\* read again for every row
ensure_loadedEveryRow(st, dsk, proj) ==
    [st EXCEPT
        !.io2r = IF map_path_for(proj) \in DOMAIN dsk
                 THEN Put(st.io2r, proj, LoadRows(dsk[map_path_for(proj)], EmptyDict))
                 ELSE st.io2r,
        !.loaded = IF proj \in RangeOf(st.loaded) THEN st.loaded
                   ELSE Append(st.loaded, proj)]

\* ensure_loaded: st is the module state, dsk the files under global_maps
ensure_loaded(st, dsk, proj) ==
    IF proj \in RangeOf(st.loaded) THEN st
    ELSE [st EXCEPT
            !.io2r = IF map_path_for(proj) \in DOMAIN dsk
                     THEN Put(st.io2r, proj, LoadRows(dsk[map_path_for(proj)], EmptyDict))
                     ELSE st.io2r,
            !.loaded = Append(st.loaded, proj)]

(* ------------------------------------------------------------------ *)
(* The row loop body                                                    *)
(* ------------------------------------------------------------------ *)
\* (1) CSV blank: the master value is used
IsBlankLookup(tbl, plcU, rlocU) == rlocU = <<>> /\ plcU \in DOMAIN tbl

\* IsConflict without the comparison with the master value
IsConflictAnyDeclared(tbl, plcU, rlocU) ==
    /\ ~IsBlankLookup(tbl, plcU, rlocU)
    /\ plcU \in DOMAIN tbl /\ rlocU # <<>>

\* (2) the row disagrees with the master
IsConflict(tbl, plcU, rlocU) ==
    /\ ~IsBlankLookup(tbl, plcU, rlocU)
    /\ plcU \in DOMAIN tbl /\ rlocU # <<>> /\ rlocU # tbl[plcU]

\* Resolve with the elif branch lost: the row's register wins a conflict
ResolveRowWins(tbl, plcU, rlocU) ==
    IF IsBlankLookup(tbl, plcU, rlocU) THEN tbl[plcU] ELSE rlocU

\* rlocU after the if / elif
Resolve(tbl, plcU, rlocU) ==
    IF IsBlankLookup(tbl, plcU, rlocU) \/ IsConflict(tbl, plcU, rlocU)
    THEN tbl[plcU] ELSE rlocU

\* Learn storing the symbol (without "%") instead of the address
LearnSymbol(tbl, plcU, rlocU) ==
    IF plcU \notin DOMAIN tbl /\ rlocU # <<>>
    THEN Put(tbl, plcU, Replace(rlocU, <<"%">>, <<>>)) ELSE tbl

\* Learn recording only tags of a known PLC area
LearnKnownArea(tbl, plcU, rlocU) ==
    IF plcU \notin DOMAIN tbl /\ rlocU # <<>>
       /\ StartsWith(plcU, <<"%">>)
    THEN Put(tbl, plcU, rlocU) ELSE tbl

\* (3) new mapping learned
Learn(tbl, plcU, rlocU) ==
    IF plcU \notin DOMAIN tbl /\ rlocU # <<>> THEN Put(tbl, plcU, rlocU) ELSE tbl

InArea(plcU)  == \E a \in InAreas  : StartsWith(plcU, a)

\* OutArea accepting the analog output area only
OutAreaAnalog(plcU) == StartsWith(plcU, <<"%","A","Q">>)

OutArea(plcU) == \E a \in OutAreas : StartsWith(plcU, a)

\* the lines appended to P["map"]
MapLines(plcU, typ, tag, r_sym, desc) ==
    IF InArea(plcU)
    THEN <<IF typ = T_BOOL THEN <<"in_bool", tag, r_sym, desc>>
                           ELSE <<"in", tag, r_sym, desc>> >>
    ELSE IF typ = T_BOOL
         THEN << <<"if", tag>>, <<"set1", r_sym>>, <<"else">>,
                 <<"set0", r_sym>>, <<"end_if", desc>> >>
         ELSE << <<"out", r_sym, tag, desc>> >>

EmptyBlock == [map |-> <<>>, rvars |-> EmptyDict]

\* the rvars assignment keeping the record of the first row of a register
SetRvarKeepFirst(rvars, r_sym, rec) ==
    IF r_sym \in DOMAIN rvars THEN rvars ELSE Put(rvars, r_sym, rec)

\* P["rvars"][r_sym] = (r_sym, rlocU, tag, typ, init)
SetRvar(rvars, r_sym, rec) == Put(rvars, r_sym, rec)

\* Emits without the "if not r_sym: continue" guard
EmitsUnguarded(plcU, r_sym) == InArea(plcU) \/ OutArea(plcU)

\* does the row reach the area dispatch with a register and a known area
Emits(plcU, r_sym) == (InArea(plcU) \/ OutArea(plcU)) /\ r_sym # <<>>

\* one iteration of "for row in rd"
ProcessRow(st, dsk, row) ==
    LET typ == Upper(Strip(row.type))
    IN  IF typ \notin KnownTypes
        THEN [st EXCEPT !.locals = Append(st.locals,
                  [typ |-> typ, proj |-> <<>>, plcU |-> <<>>, rlocU |-> <<>>,
                   r_sym |-> <<>>])]
        ELSE
        LET proj     == Strip(OrElse(row.proj, DEFAULT))
            s1       == ensure_loaded(st, dsk, proj)
            plc_raw  == Strip(row.tag)
            rloc_raw == Strip(row.reg)
            plcU     == Upper(plc_raw)
            rlocU0   == Upper(rloc_raw)
            name     == OrElse(Strip(row.name), plc_raw)
            desc     == esc_comment(row.desc)
            init     == OrElse(Strip(row.init), <<"0">>)
            tag      == st_safe(name)
            tbl      == GetOr(s1.io2r, proj, EmptyDict)
            rlocU    == Resolve(tbl, plcU, rlocU0)
            warn1    == IF IsConflict(tbl, plcU, rlocU0)
                        THEN << <<"conflict", plc_raw, rloc_raw, tbl[plcU]>> >>
                        ELSE <<>>
            tbl2     == Learn(tbl, plcU, rlocU)
            r_sym    == Replace(rlocU, <<"%">>, <<>>)
            P        == GetOr(s1.projects, proj, EmptyBlock)
            known    == InArea(plcU) \/ OutArea(plcU)
            warn2    == IF known /\ r_sym = <<>>
                        THEN << <<"skipped", proj, plc_raw, tag>> >>
                        ELSE <<>>
            P2       == IF Emits(plcU, r_sym)
                        THEN [map   |-> P.map \o MapLines(plcU, typ, tag, r_sym, desc),
                              rvars |-> SetRvar(P.rvars, r_sym,
                                            <<r_sym, rlocU, tag, typ, init>>)]
                        ELSE P
        IN  [io2r     |-> Put(s1.io2r, proj, tbl2),
             loaded   |-> s1.loaded,
             projects |-> Put(s1.projects, proj, P2),
             out      |-> s1.out \o warn1 \o warn2,
             locals   |-> Append(s1.locals,
                  [typ |-> typ, proj |-> proj, plcU |-> plcU, rlocU |-> rlocU,
                   r_sym |-> r_sym])]

(* ------------------------------------------------------------------ *)
(* The output files of one project                                      *)
(* ------------------------------------------------------------------ *)
\* <proj>_map.st
MapStText(blk) == << <<"AUTOGEN MAPPINGS">> >> \o blk.map

\* the DataType column of the import file
ImportType(dtyp) == IF dtyp = T_INT THEN T_INT
                    ELSE IF dtyp = T_STRING THEN T_STRING ELSE T_WORD

RvarsSorted(blk) == SortedSeq({blk.rvars[r] : r \in DOMAIN blk.rvars})

\* <proj>_Rvars.csv: header, then Name, DataType, Description, InitialValue, IOAddress
RvarsCsv(blk) ==
    LET v == RvarsSorted(blk)
    IN  << <<"IMPORT_HEADER">> >> \o
        [i \in 1..Len(v) |->
            <<v[i][1], ImportType(v[i][4]),
              <<"m","i","r","r","o","r"," ","o","f"," ">> \o v[i][3],
              v[i][5], v[i][2]>>]

\* <proj>_init.st
InitStText(blk) ==
    LET v == RvarsSorted(blk)
    IN  << <<"AUTOGEN REGISTER PRESETS">> >> \o
        [i \in 1..Len(v) |-> <<v[i][1], st_literal(v[i][4], v[i][5]), v[i][3]>>]

(* ------------------------------------------------------------------ *)
(* Inputs                                                               *)
(* ------------------------------------------------------------------ *)
\* header rows of the exported sheet: the full one, and two with a column missing
FullHeader ==
    << <<"P","r","o","j","e","c","t"," ","N","a","m","e">>,
       <<"P","L","C"," ","T","a","g">>,
       <<"R","e","g","i","s","t","e","r"," ","P","L","C">>,
       <<"N","a","m","e">>,
       <<"D","a","t","a"," ","T","y","p","e">>,
       <<"D","e","s","c","r","i","p","t","i","o","n">>,
       <<"I","n","i","t","i","a","l"," ","V","a","l","u","e">> >>

Without(seq, i) == SubSeq(seq, 1, i - 1) \o SubSeq(seq, i + 1, Len(seq))

Headers == {FullHeader, Without(FullHeader, 3), Without(FullHeader, 7)}

\* register cells: blank, and two registers (one needing strip and upper)
RegCells == { <<>>, <<" ","%","r","1">>, <<"%","R","2">> }

CellRow(p, t, r, ty) ==
    [proj |-> p, tag |-> t, reg |-> r, name |-> <<>>, type |-> ty,
     desc |-> <<>>, init |-> <<>>]

BoolCell == <<"b","o","o","l"," ">>

\* rows of project "A B": an empty tag and an input-area tag, every register cell
RowsAB ==
    {CellRow(<<"A"," ","B">>, t, r, BoolCell) :
        t \in { <<>>, <<"%","i","1">> }, r \in RegCells}

\* rows of project "A_B", whose name differs from "A B" only in a character
\* coerced to "_" for the file name: the same input-area tag
RowsA_B ==
    {CellRow(<<"A","_","B">>, <<"%","i","1">>, r, BoolCell) : r \in RegCells}

\* rows with an empty project cell (DEFAULT): an output-area tag and a tag
\* of an unknown area
RowsDefault ==
    { CellRow(<<>>, <<"%","Q","1">>, <<>>, BoolCell),
      CellRow(<<>>, <<"%","Q","1">>, <<" ","%","r","1">>, BoolCell),
      CellRow(<<>>, <<"x">>, <<"%","R","2">>, BoolCell) }

\* a row of a type the row loop does not accept
RowReal ==
    CellRow(<<"A"," ","B">>, <<"%","i","1">>, <<"%","R","2">>, <<"R","E","A","L">>)

\* a row of project "A B" with an initial value and no register
RowInit ==
    [CellRow(<<"A"," ","B">>, <<"%","i","1">>, <<>>, BoolCell)
        EXCEPT !.init = <<" ","y","e","s">>]

\* the rows a sheet may hold
Rows == RowsAB \cup RowsA_B \cup RowsDefault \cup {RowReal, RowInit}

AB_Path == map_path_for(<<"A"," ","B">>)

\* the global_maps directory before the first run: empty, or holding maps
\* the script wrote in earlier invocations
InitDisks ==
    { EmptyDict,
      Put(EmptyDict, AB_Path, << << <<"%","I","1">>, <<"%","R","1">> >> >>),
      Put(Put(EmptyDict, AB_Path, << << <<>>, <<"%","R","1">> >> >>),
          map_path_for(<<>>),
          << << <<"%","Q","1">>, <<"%","R","1">> >>,
             << <<"X">>, <<"%","R","2">> >> >>) }

(* ------------------------------------------------------------------ *)
(* State                                                                *)
(* ------------------------------------------------------------------ *)
VARIABLES
    pc,         \* "idle", "rows", "outputs", "save", "saving", "done", "aborted", "crashed"
    run,        \* invocations started so far
    fieldnames, \* rd.fieldnames of the input CSV
    rows,       \* the rows of the input CSV read so far in this run
    replay,     \* this run reads the same CSV as the previous run
    prevRows,   \* the rows of that CSV
    prevOut,    \* the lines the previous run printed
    io2r,       \* proj -> (PLC tag -> register)
    loaded,     \* _loaded, in insertion order (the key order of io2r and projects)
    projects,   \* proj -> [map, rvars]
    out,        \* lines printed
    locals,     \* typ, proj, plcU, rlocU, r_sym at the end of each row iteration
    idx,        \* position of the output loop / save loop
    disk,       \* files under global_maps: path -> rows
    files,      \* generated output files: path -> content
    writes,     \* files written by this run, in order
    diskStart   \* global_maps when this run started

vars == <<pc, run, fieldnames, rows, replay, prevRows, prevOut, io2r, loaded, projects,
          out, locals, idx, disk, files, writes, diskStart>>

VARIABLES
    jpc,        \* createjson.py: "off", "idle", "parse", "merge", "done", "aborted"
    jinput,     \* the lines of the CSV read by "for r in rd"
    header,     \* the header row found
    reg_col,    \* index of "Register PLC" in the header (from 0)
    mb_col,     \* index of "Modbus Address" in the header (from 0)
    jrows,      \* rows: the (register, address) pairs
    links,      \* the link blocks
    ji,         \* i, the position of the merge loop (from 0)
    jfile       \* config.generated.json: <<>> or << json_doc >>

jvars == <<jpc, jinput, header, reg_col, mb_col, jrows, links, ji, jfile>>

VARIABLES
    lpc,        \* preset of one row: "off", "row", "preset"
    litRow,     \* the row
    litText     \* the lines of <proj>_init.st generated for it

lvars == <<lpc, litRow, litText>>

\* createjson.py is not running
JsonOff ==
    /\ jpc = "off" /\ jinput = <<>> /\ header = <<>> /\ reg_col = 0 /\ mb_col = 0
    /\ jrows = <<>> /\ links = <<>> /\ ji = 0 /\ jfile = <<>>

\* no single row is being followed to its preset
LiteralOff == lpc = "off" /\ litRow = CellRow(<<>>, <<>>, <<>>, <<>>) /\ litText = <<>>

Init ==
    /\ JsonOff /\ LiteralOff
    /\ pc = "idle" /\ run = 0
    /\ fieldnames = <<>> /\ rows = <<>> /\ replay = FALSE /\ prevRows = <<>>
    /\ prevOut = <<>>
    /\ io2r = EmptyDict /\ loaded = <<>> /\ projects = EmptyDict
    /\ out = <<>> /\ locals = <<>> /\ idx = 0
    /\ disk \in InitDisks /\ files = EmptyDict /\ writes = <<>>
    /\ diskStart = disk

\* module state as ProcessRow takes it
ModState == [io2r |-> io2r, loaded |-> loaded, projects |-> projects,
             out |-> out, locals |-> locals]

\* where the script goes after the row loop / after the i-th output project
AfterOutputs(n, i) == IF i <= n THEN "outputs" ELSE IF n > 0 THEN "save" ELSE "done"

\* Begin without the SystemExit on missing columns
BeginNoAbort(h) ==
    /\ run' = run + 1
    /\ fieldnames' = h
    /\ rows' = <<>>
    /\ io2r' = EmptyDict /\ loaded' = <<>> /\ projects' = EmptyDict
    /\ locals' = <<>> /\ idx' = 0 /\ writes' = <<>>
    /\ diskStart' = disk
    /\ pc' = "rows" /\ out' = <<>>
    /\ UNCHANGED <<jvars, lvars, disk, files>>

\* module initialisation, opening the CSV and the header check
Begin(h) ==
    /\ run' = run + 1
    /\ fieldnames' = h
    /\ rows' = <<>>
    /\ io2r' = EmptyDict /\ loaded' = <<>> /\ projects' = EmptyDict
    /\ locals' = <<>> /\ idx' = 0 /\ writes' = <<>>
    /\ diskStart' = disk
    /\ IF MissingColumns(h) # {}
       THEN pc' = "aborted" /\ out' = << <<"missing", MissingColumns(h)>> >>
       ELSE pc' = "rows" /\ out' = <<>>
    /\ UNCHANGED <<jvars, lvars, disk, files>>

\* first invocation
StartRun ==
    /\ pc = "idle" /\ run < MaxRuns
    /\ \E h \in Headers : Begin(h)
    /\ replay' = FALSE /\ prevRows' = <<>> /\ prevOut' = <<>>

\* the script is invoked again on the same CSV
Rerun ==
    /\ pc = "done" /\ run < MaxRuns
    /\ Begin(fieldnames)
    /\ replay' = TRUE /\ prevRows' = rows /\ prevOut' = out

\* one iteration of the row loop
ReadRow ==
    /\ pc = "rows" /\ Len(rows) < MaxRows
    /\ \E row \in Rows :
         /\ replay => Len(rows) < Len(prevRows) /\ row = prevRows[Len(rows) + 1]
         /\ rows' = Append(rows, row)
         /\ LET s == ProcessRow(ModState, disk, row)
            IN  /\ io2r' = s.io2r /\ loaded' = s.loaded /\ projects' = s.projects
                /\ out' = s.out /\ locals' = s.locals
    /\ UNCHANGED <<jvars, lvars, pc, run, fieldnames, replay, prevRows, prevOut, idx, disk, files,
                   writes, diskStart>>

\* end of the CSV
EndRows ==
    /\ pc = "rows"
    /\ replay => Len(rows) = Len(prevRows)
    /\ pc' = AfterOutputs(Len(loaded), 1)
    /\ idx' = 1
    /\ UNCHANGED <<jvars, lvars, run, fieldnames, rows, replay, prevRows, prevOut, io2r, loaded,
                   projects, out, locals, disk, files, writes, diskStart>>

\* one iteration of "for proj, blk in projects.items()"
WriteOutputs ==
    /\ pc = "outputs"
    /\ LET proj == loaded[idx]
           blk  == projects[proj]
           w    == << <<MapStPath(proj),  MapStText(blk)>>,
                      <<RvarsPath(proj),  RvarsCsv(blk)>>,
                      <<InitStPath(proj), InitStText(blk)>> >>
       IN  /\ files' = Put(Put(Put(files, w[1][1], w[1][2]), w[2][1], w[2][2]),
                           w[3][1], w[3][2])
           /\ writes' = writes \o w
           /\ out' = out \o << <<"wrote", w[1][1]>>, <<"wrote", w[2][1]>>,
                               <<"wrote", w[3][1]>> >>
    /\ idx' = IF idx < Len(loaded) THEN idx + 1 ELSE 1
    /\ pc' = AfterOutputs(Len(loaded), idx + 1)
    /\ UNCHANGED <<jvars, lvars, run, fieldnames, rows, replay, prevRows, prevOut, io2r, loaded,
                   projects, locals, disk, diskStart>>

\* gpath.open("w"): the file is created or truncated
SaveOpen ==
    /\ pc = "save"
    /\ disk' = Put(disk, map_path_for(loaded[idx]), <<>>)
    /\ pc' = "saving"
    /\ UNCHANGED <<jvars, lvars, run, fieldnames, rows, replay, prevRows, prevOut, io2r, loaded,
                   projects, out, locals, idx, files, writes, diskStart>>

\* the rows are written and the file is closed
SaveClose ==
    /\ pc = "saving"
    /\ LET proj == loaded[idx]
           path == map_path_for(proj)
           text == MapRows(io2r[proj])
       IN  /\ disk' = Put(disk, path, text)
           /\ writes' = Append(writes, <<path, text>>)
           /\ out' = Append(out, <<"master", path>>)
    /\ idx' = idx + 1
    /\ pc' = IF idx < Len(loaded) THEN "save" ELSE "done"
    /\ UNCHANGED <<jvars, lvars, run, fieldnames, rows, replay, prevRows, prevOut, io2r, loaded,
                   projects, locals, files, diskStart>>

Prefixes(seq) == {SubSeq(seq, 1, n) : n \in 0..Len(seq)}

\* the process is killed or raises between its start and its end; of a map
\* file that is open, the rows flushed so far stay on disk
Crash ==
    /\ pc \in {"rows", "outputs", "save", "saving"}
    /\ pc' = "crashed"
    /\ IF pc = "saving"
       THEN \E part \in Prefixes(MapRows(io2r[loaded[idx]])) :
               disk' = Put(disk, map_path_for(loaded[idx]), part)
       ELSE disk' = disk
    /\ UNCHANGED <<jvars, lvars, run, fieldnames, rows, replay, prevRows, prevOut, io2r, loaded,
                   projects, out, locals, idx, files, writes, diskStart>>

Next == StartRun \/ Rerun \/ ReadRow \/ EndRows \/ WriteOutputs \/ SaveOpen \/ SaveClose

Spec == Init /\ [][Next]_vars

NextCrash == Next \/ Crash

SpecCrash == Init /\ [][NextCrash]_vars

(* ------------------------------------------------------------------ *)
(* Vocabulary of the properties                                         *)
(* ------------------------------------------------------------------ *)
RowType(row) == Upper(Strip(row.type))
RowProj(row) == Strip(OrElse(row.proj, DEFAULT))
RowTag(row)  == Upper(Strip(row.tag))
RowReg(row)  == Upper(Strip(row.reg))

\* number of conflict warnings among printed lines
Conflicts(o) == Cardinality({i \in 1..Len(o) : o[i][1] = "conflict"})

\* a step of the row loop
RowStep == pc = "rows" /\ Len(rows') = Len(rows) + 1

\* the row that step reads
StepRow == rows'[Len(rows')]

\* the project's table as the row finds it (after ensure_loaded)
TableAt(st, dsk, proj) == GetOr(ensure_loaded(st, dsk, proj).io2r, proj, EmptyDict)

EmptyState == [io2r |-> EmptyDict, loaded |-> <<>>, projects |-> EmptyDict,
               out |-> <<>>, locals |-> <<>>]

\* the row loop over a whole sheet
RECURSIVE RunRows(_, _, _)
RunRows(st, dsk, rws) ==
    IF rws = <<>> THEN st
    ELSE RunRows(ProcessRow(st, dsk, rws[1]), dsk, Tail(rws))

\* the save loop over a whole run
RECURSIVE SaveAll(_, _, _)
SaveAll(dsk, st, i) ==
    IF i > Len(st.loaded) THEN dsk
    ELSE SaveAll(Put(dsk, map_path_for(st.loaded[i]), MapRows(st.io2r[st.loaded[i]])),
                 st, i + 1)

\* the project's table as the i-th row of this run found it
TableBefore(i, proj) ==
    TableAt(RunRows(EmptyState, diskStart, SubSeq(rows, 1, i - 1)), diskStart, proj)

\* position of a project in the loops over the projects
Position(proj) == CHOOSE k \in 1..Len(loaded) : loaded[k] = proj

\* the master map the save loop wrote for a project of a completed run
SavedFor(proj) == writes[3 * Len(loaded) + Position(proj)]

(* ------------------------------------------------------------------ *)
(* createjson.py: the register / Modbus address sheet                   *)
(* ------------------------------------------------------------------ *)
MaxLines == 4

\* cells of the register / Modbus address sheet
REGISTER_LC == <<"r","e","g","i","s","t","e","r">>
REGISTER_PLC == <<"R","e","g","i","s","t","e","r"," ","P","L","C">>
REGISTER_LC_PLC == <<"r","e","g","i","s","t","e","r"," ","p","l","c">>
MODBUS_ADDRESS == <<"M","o","d","b","u","s"," ","A","d","d","r","e","s","s">>
JUNK == <<"R","L","F"," ","e","x","p","o","r","t">>
PLC_IP == <<"1","9","2",".","1","6","8",".","3","0",".","2","4","4">>
R01017 == <<"%","R","0","1","0","1","7">>
R01018 == <<"%","R","0","1","0","1","8">>
R01018_LC == <<"%","r","0","1","0","1","8">>
R1019_SP == <<" ","%","R","1","0","1","9"," ">>
R01025 == <<"%","R","0","1","0","2","5">>
R01020 == <<"%","R","0","1","0","2","0">>
NOPCT_R1017 == <<"R","1","0","1","7">>


SRTP_PORT == 18245
POLL_MS == 100

\* "sub in s"
Contains(s, sub) ==
    \E k \in 1..(Len(s) - Len(sub) + 1) : SubSeq(s, k, k + Len(sub) - 1) = sub

\* any("register" in h.lower() for h in header)
IsHeaderLine(line) ==
    \E k \in 1..Len(line) : Contains(Lower(line[k]), REGISTER_LC)

\* "for header in rd: if ...: break": the first such line, else the last line
RECURSIVE FindHeader(_)
FindHeader(lines) ==
    IF Len(lines) = 1 \/ IsHeaderLine(lines[1]) THEN lines[1]
    ELSE FindHeader(Tail(lines))

\* header.index(cell), -1 standing for ValueError
ListIndex(line, cell) ==
    IF \E k \in 1..Len(line) : line[k] = cell
    THEN (CHOOSE k \in 1..Len(line) :
             line[k] = cell /\ \A m \in 1..(k - 1) : line[m] # cell) - 1
    ELSE 0 - 1

AllDigits(s) == s # <<>> /\ \A k \in 1..Len(s) : IsDigit(s[k])

\* int(digits)
RECURSIVE IntOf(_)
IntOf(s) ==
    IF s = <<>> THEN 0
    ELSE 10 * IntOf(SubSeq(s, 1, Len(s) - 1)) + (IndexIn(DigitChars, s[Len(s)]) - 1)

\* parse_reg, -1 standing for ValueError
parse_reg(token) ==
    LET t == Strip(Upper(token))
    IN  IF StartsWith(t, <<"%","R">>) /\ AllDigits(SubSeq(t, 3, Len(t)))
        THEN IntOf(SubSeq(t, 3, Len(t)))
        ELSE 0 - 1

\* parse_mb, -1 standing for ValueError: the pattern admits digits between
\* white space, and int(token) is the value of all of them
parse_mb(token) ==
    LET t == Strip(token)
    IN  IF AllDigits(t) THEN IntOf(t) ELSE 0 - 1

Max(a, b) == IF a >= b THEN a ELSE b

\* the body of "for r in rd": rows after the line r
ParseLine(rws, r, rc, mc) ==
    IF Len(r) <= Max(rc, mc) THEN rws
    ELSE LET reg == parse_reg(r[rc + 1])
             mb  == parse_mb(r[mc + 1])
         IN  IF reg < 0 \/ mb < 0 THEN rws ELSE Append(rws, <<reg, mb>>)

\* tuple comparison of rows.sort()
PairLess(a, b) == a[1] < b[1] \/ (a[1] = b[1] /\ a[2] < b[2])

RECURSIVE InsertPair(_, _)
InsertPair(pr, sorted) ==
    IF sorted = <<>> THEN <<pr>>
    ELSE IF PairLess(pr, sorted[1]) THEN <<pr>> \o sorted
    ELSE <<sorted[1]>> \o InsertPair(pr, Tail(sorted))

\* rows.sort()
RECURSIVE SortPairs(_)
SortPairs(rws) ==
    IF rws = <<>> THEN <<>>
    ELSE InsertPair(rws[1], SortPairs(Tail(rws)))

\* the inner while comparing registers only
RECURSIVE RunLengthByRegister(_, _, _)
RunLengthByRegister(rws, i, cnt) ==
    IF /\ i + cnt < Len(rws)
       /\ rws[i + cnt + 1][1] = rws[i + 1][1] + cnt
    THEN RunLengthByRegister(rws, i, cnt + 1)
    ELSE cnt

\* the inner while: cnt when it ends
RECURSIVE RunLength(_, _, _)
RunLength(rws, i, cnt) ==
    IF /\ i + cnt < Len(rws)
       /\ rws[i + cnt + 1][1] = rws[i + 1][1] + cnt
       /\ rws[i + cnt + 1][2] = rws[i + 1][2] + cnt
    THEN RunLength(rws, i, cnt + 1)
    ELSE cnt

\* f"{n:0w}"
ZeroPad(n, w) ==
    LET d == Decimal(n)
    IN  IF Len(d) >= w THEN d ELSE [k \in 1..(w - Len(d)) |-> "0"] \o d

\* the dict appended to links
LinkOf(reg_start, mb_start, cnt) ==
    [Plc |-> <<"R">> \o ZeroPad(reg_start, 5), Modbus |-> Decimal(mb_start),
     Count |-> cnt]

\* the lines before the data: junk then the header, the header alone, a
\* header whose register column is spelt in lower case, junk alone
JsonHeads ==
    { << <<JUNK>>, <<REGISTER_PLC, MODBUS_ADDRESS>> >>,
      << <<REGISTER_PLC, MODBUS_ADDRESS>> >>,
      << <<REGISTER_LC_PLC, MODBUS_ADDRESS>> >>,
      << <<JUNK>> >> }

\* data lines: four well-formed ones of which three are contiguous, one
\* contiguous in the register only, a register without "%", an address that
\* is no number, a line with one cell
JsonLines ==
    { <<R01017, <<"1">>>>,
      <<R01018_LC, <<"2">>>>,
      <<R1019_SP, <<" ","3"," ">>>>,
      <<R01025, <<"9">>>>,
      <<R01018, <<"5">>>>,
      <<NOPCT_R1017, <<"1">>>>,
      <<R01020, <<"x","1">>>>,
      <<R01017>> }

\* the first script is not running
MainOff ==
    /\ pc = "off" /\ run = 0
    /\ fieldnames = <<>> /\ rows = <<>> /\ replay = FALSE /\ prevRows = <<>>
    /\ prevOut = <<>>
    /\ io2r = EmptyDict /\ loaded = <<>> /\ projects = EmptyDict
    /\ out = <<>> /\ locals = <<>> /\ idx = 0
    /\ disk = EmptyDict /\ files = EmptyDict /\ writes = <<>>
    /\ diskStart = EmptyDict

InitJson ==
    /\ MainOff /\ LiteralOff
    /\ jpc = "idle" /\ jinput = <<>> /\ header = <<>> /\ reg_col = 0 /\ mb_col = 0
    /\ jrows = <<>> /\ links = <<>> /\ ji = 0 /\ jfile = <<>>

\* the header is looked for and its two columns are located
OpenSheet ==
    /\ jpc = "idle"
    /\ \E head \in JsonHeads :
         LET h  == FindHeader(head)
             rc == ListIndex(h, REGISTER_PLC)
             mc == ListIndex(h, MODBUS_ADDRESS)
         IN  /\ header' = h
             /\ IF rc < 0 \/ mc < 0
                THEN jpc' = "aborted" /\ reg_col' = reg_col /\ mb_col' = mb_col
                ELSE jpc' = "parse" /\ reg_col' = rc /\ mb_col' = mc
    /\ UNCHANGED <<jinput, jrows, links, ji, jfile>>
    /\ UNCHANGED <<vars, lvars>>

\* one iteration of "for r in rd"
ParseRow ==
    /\ jpc = "parse" /\ Len(jinput) < MaxLines
    /\ \E r \in JsonLines :
         /\ jinput' = Append(jinput, r)
         /\ jrows' = ParseLine(jrows, r, reg_col, mb_col)
    /\ UNCHANGED <<jpc, header, reg_col, mb_col, links, ji, jfile>>
    /\ UNCHANGED <<vars, lvars>>

\* end of the sheet: rows.sort(), links = [], i = 0
SortRows ==
    /\ jpc = "parse"
    /\ jrows' = SortPairs(jrows)
    /\ links' = <<>> /\ ji' = 0
    /\ jpc' = "merge"
    /\ UNCHANGED <<jinput, header, reg_col, mb_col, jfile>>
    /\ UNCHANGED <<vars, lvars>>

\* one iteration of "while i < len(rows)"
MergeBlock ==
    /\ jpc = "merge" /\ ji < Len(jrows)
    /\ LET cnt == RunLength(jrows, ji, 1)
       IN  /\ links' = Append(links, LinkOf(jrows[ji + 1][1], jrows[ji + 1][2], cnt))
           /\ ji' = ji + cnt
    /\ UNCHANGED <<jpc, jinput, header, reg_col, mb_col, jrows, jfile>>
    /\ UNCHANGED <<vars, lvars>>

\* json.dump(json_doc, f, indent=2)
WriteJson ==
    /\ jpc = "merge" /\ ji >= Len(jrows)
    /\ jfile' = << [PollMs |-> POLL_MS, DefaultSwapBytes |-> TRUE,
                    Plcs |-> << [Ip |-> PLC_IP, SrtpPort |-> SRTP_PORT,
                                 Links |-> links] >>] >>
    /\ jpc' = "done"
    /\ UNCHANGED <<jinput, header, reg_col, mb_col, jrows, links, ji>>
    /\ UNCHANGED <<vars, lvars>>

NextJson == OpenSheet \/ ParseRow \/ SortRows \/ MergeBlock \/ WriteJson

SpecJson == InitJson /\ [][NextJson]_<<vars, jvars, lvars>>

(* ------------------------------------------------------------------ *)
(* One row and the preset generated for it                              *)
(* ------------------------------------------------------------------ *)
\* contents of the Initial Value cell
LitWords ==
    { <<>>,
      <<"0">>,
      <<"1">>,
      <<"n","o">>,
      <<"y","e","s">>,
      <<"Y","E","S">>,
      <<"Y","e","s">>,
      <<"y","E","s">>,
      <<"t","r","u","e">>,
      <<"T","R","U","E">>,
      <<"T","r","u","e">>,
      <<"t">>,
      <<"T">>,
      <<"y">>,
      <<"Y">>,
      <<"o","n">>,
      <<"f","a","l","s","e">>,
      <<"1","1">>,
      <<"t","r","u">>,
      <<"y","e","s","1">>,
      <<"0","1">>,
      <<"2">>,
      <<"y","e"," ","s">>,
      <<"t","r","u","e","e">>,
      <<"0","x","1","0">> }

\* the same between blanks
LitCells ==
    LitWords \cup {<<" ">> \o w : w \in LitWords} \cup {w \o <<" ">> : w \in LitWords}

\* Data Type cells of the four accepted types
LitTypes == { BoolCell, <<"I","N","T">>, <<"W","o","r","d">>, <<"s","t","r","i","n","g">> }

\* rows of an input-area tag with a register, of every type and initial value
LitRows ==
    {[CellRow(<<>>, <<"%","I","1">>, <<"%","R","1">>, ty) EXCEPT !.init = c] :
        ty \in LitTypes, c \in LitCells}

InitLiteral ==
    /\ MainOff /\ JsonOff
    /\ lpc = "row" /\ litRow \in LitRows /\ litText = <<>>

\* the row loop over the row, then init_block for its project
PresetOfRow ==
    /\ lpc = "row"
    /\ LET st == ProcessRow(EmptyState, EmptyDict, litRow)
       IN  litText' = InitStText(st.projects[RowProj(litRow)])
    /\ lpc' = "preset"
    /\ UNCHANGED litRow
    /\ UNCHANGED <<vars, jvars>>

NextLiteral == PresetOfRow

SpecLiteral == InitLiteral /\ [][NextLiteral]_<<vars, jvars, lvars>>

(* ------------------------------------------------------------------ *)
(* C1  conflict precedence                                              *)
(* ------------------------------------------------------------------ *)
\* C1: a row of a recognised type whose tag is already mapped to A in its
\* project's table and which declares a non-empty register B # A resolves
\* to A, leaves the table entry at A and prints exactly one conflict warning.
C1_ConflictPrecedence ==
    [][RowStep =>
        LET row == StepRow
            tbl == TableAt(ModState, disk, RowProj(row))
        IN  (/\ RowType(row) \in KnownTypes
             /\ RowTag(row) \in DOMAIN tbl
             /\ RowReg(row) # <<>>
             /\ RowReg(row) # tbl[RowTag(row)])
            => /\ locals'[Len(locals')].rlocU = tbl[RowTag(row)]
               /\ io2r'[RowProj(row)][RowTag(row)] = tbl[RowTag(row)]
               /\ Conflicts(out') = Conflicts(out) + 1]_vars

\* a conflicting row has just been processed: the register resolved is not
\* the one it declared, and a conflict warning is the last line printed
C1_Witness ==
    /\ pc = "rows" /\ rows # <<>>
    /\ RowType(rows[Len(rows)]) \in KnownTypes
    /\ RowReg(rows[Len(rows)]) # <<>>
    /\ locals[Len(locals)].rlocU # RowReg(rows[Len(rows)])
    /\ out # <<>> /\ out[Len(out)][1] = "conflict"

(* ------------------------------------------------------------------ *)
(* C2  idempotence of the table                                         *)
(* ------------------------------------------------------------------ *)
\* C2: when the script has run to completion a second time on the same
\* rows, every master map on disk is what the first run left.
C2_TableFixedPoint == (pc = "done" /\ replay) => disk = diskStart

\* a second run over two rows completed, on maps that the first run changed
C2_Witness ==
    /\ pc = "done" /\ replay /\ Len(rows) = 2
    /\ disk \notin InitDisks
    /\ \E path \in DOMAIN disk : Len(disk[path]) >= 2

(* ------------------------------------------------------------------ *)
(* C3  idempotence of the warnings                                      *)
(* ------------------------------------------------------------------ *)
\* C3 as stated: the second pass over the same rows prints no conflict warning.
C3_Original == replay => Conflicts(out) = 0

\* two rows share a master map file and a tag and declare different registers
Clash(rws) ==
    \E i, j \in 1..Len(rws) :
        /\ RowType(rws[i]) \in KnownTypes /\ RowType(rws[j]) \in KnownTypes
        /\ map_path_for(RowProj(rws[i])) = map_path_for(RowProj(rws[j]))
        /\ RowTag(rws[i]) = RowTag(rws[j])
        /\ RowReg(rws[i]) # <<>> /\ RowReg(rws[j]) # <<>>
        /\ RowReg(rws[i]) # RowReg(rws[j])

\* C3 amended: the second pass prints no conflict warning when the first
\* pass printed none and no two rows that share a master map file and a tag
\* declare different registers (stated by its contrapositive: a warning on
\* the second pass means a warning on the first or such a pair of rows).
C3_QuietSecondPass ==
    (replay /\ Conflicts(out) > 0) => (Conflicts(prevOut) > 0 \/ Clash(prevRows))

\* a second pass read, without warning, a row declaring a register for a tag
\* that the first pass had learned
C3_Witness ==
    /\ replay /\ pc = "done" /\ Len(rows) = 2
    /\ Conflicts(prevOut) = 0 /\ ~Clash(prevRows) /\ Conflicts(out) = 0
    /\ \E i \in 1..Len(rows) :
          /\ RowType(rows[i]) \in KnownTypes /\ RowReg(rows[i]) # <<>>
          /\ RowTag(rows[i]) \in DOMAIN TableBefore(1, RowProj(rows[i]))

(* ------------------------------------------------------------------ *)
(* C4  new-tag learning                                                 *)
(* ------------------------------------------------------------------ *)
\* C4 as stated: after a completed run, for every row (of any type) whose
\* tag was absent from its project's table and which declared a register B,
\* the project's master map on disk holds tag -> B.
C4_Original ==
    pc = "done" =>
        \A i \in 1..Len(rows) :
            LET row == rows[i]
                path == map_path_for(RowProj(row))
            IN  (RowTag(row) \notin DOMAIN TableBefore(i, RowProj(row))
                 /\ RowReg(row) # <<>>)
                => /\ path \in DOMAIN disk
                   /\ <<RowTag(row), RowReg(row)>> \in RangeOf(disk[path])

\* C4 amended: after a completed run, for every row of a recognised type
\* whose tag was absent from its project's table and which declared a
\* register B, the project's table holds tag -> B and the master map the
\* save loop wrote for that project holds the row (tag, B).
C4_NewTagLearned ==
    pc = "done" =>
        \A i \in 1..Len(rows) :
            LET row == rows[i]
            IN  (/\ RowType(row) \in KnownTypes
                 /\ RowTag(row) \notin DOMAIN TableBefore(i, RowProj(row))
                 /\ RowReg(row) # <<>>)
                => /\ RowTag(row) \in DOMAIN io2r[RowProj(row)]
                   /\ io2r[RowProj(row)][RowTag(row)] = RowReg(row)
                   /\ SavedFor(RowProj(row))[1] = map_path_for(RowProj(row))
                   /\ <<RowTag(row), RowReg(row)>>
                         \in RangeOf(SavedFor(RowProj(row))[2])

\* a completed run whose first row taught a new tag that is now on disk
C4_Witness ==
    /\ pc = "done" /\ rows # <<>>
    /\ RowType(rows[1]) \in KnownTypes /\ RowReg(rows[1]) # <<>>
    /\ RowTag(rows[1]) \notin DOMAIN TableBefore(1, RowProj(rows[1]))
    /\ <<RowTag(rows[1]), RowReg(rows[1])>>
          \in RangeOf(disk[map_path_for(RowProj(rows[1]))])

(* ------------------------------------------------------------------ *)
(* C5  table monotonicity across runs                                   *)
(* ------------------------------------------------------------------ *)
\* C5: every (tag, register) row that a project's master map held when a
\* run started is still in that map when the run has completed.
C5_Monotonic ==
    pc = "done" =>
        \A path \in DOMAIN diskStart :
            /\ path \in DOMAIN disk
            /\ RangeOf(diskStart[path]) \subseteq RangeOf(disk[path])

(* ------------------------------------------------------------------ *)
(* C6  project isolation                                                *)
(* ------------------------------------------------------------------ *)
\* the sheet without the rows of project q
RECURSIVE WithoutProject(_, _)
WithoutProject(rws, q) ==
    IF rws = <<>> THEN <<>>
    ELSE IF RowProj(rws[1]) = q THEN WithoutProject(Tail(rws), q)
    ELSE <<rws[1]>> \o WithoutProject(Tail(rws), q)

\* the registers resolved for the rows of project p, in row order
RECURSIVE ResolvedFor(_, _)
ResolvedFor(ls, p) ==
    IF ls = <<>> THEN <<>>
    ELSE IF ls[1].proj = p /\ ls[1].typ \in KnownTypes
         THEN <<ls[1].rlocU>> \o ResolvedFor(Tail(ls), p)
         ELSE ResolvedFor(Tail(ls), p)

\* C6: for two distinct projects P and Q of a completed run, the registers
\* resolved for P's rows and the master map on disk for P are those of the
\* same run without Q's rows.
C6_Isolation ==
    pc = "done" =>
        \A p, q \in RangeOf(loaded) :
            p # q =>
                LET alone == RunRows(EmptyState, diskStart, WithoutProject(rows, q))
                IN  /\ ResolvedFor(locals, p) = ResolvedFor(alone.locals, p)
                    /\ disk[map_path_for(p)]
                         = SaveAll(diskStart, alone, 1)[map_path_for(p)]

(* ------------------------------------------------------------------ *)
(* C7  round trip of the mapping table                                  *)
(* ------------------------------------------------------------------ *)
\* C7: after a completed run, what ensure_loaded reads back from a
\* project's master map is the project's in-memory table.
C7_RoundTrip ==
    pc = "done" =>
        \A p \in RangeOf(loaded) :
            LoadRows(disk[map_path_for(p)], EmptyDict) = io2r[p]

(* ------------------------------------------------------------------ *)
(* C8  unresolvable skip                                                *)
(* ------------------------------------------------------------------ *)
\* C8: a row whose tag is absent from its project's table and which
\* declares no register adds no assignment line and no register variable to
\* any project's buffers (so no import record and no preset line), adds no
\* table entry, and leaves the run in the row loop; a completed run has
\* processed every row and written the outputs and the master map of every
\* project it loaded.
C8_UnresolvableSkip ==
    /\ [][RowStep =>
            LET row == StepRow
                tbl == TableAt(ModState, disk, RowProj(row))
            IN  (RowTag(row) \notin DOMAIN tbl /\ RowReg(row) = <<>>)
                => /\ \A p \in DOMAIN projects' :
                         projects'[p] = GetOr(projects, p, EmptyBlock)
                   /\ \A p \in DOMAIN io2r' :
                         io2r'[p] = TableAt(ModState, disk, p)
                   /\ pc' = "rows"
                   /\ Len(locals') = Len(rows')]_vars
    /\ [](pc = "done" => /\ Len(locals) = Len(rows)
                         /\ Len(writes) = 4 * Len(loaded))

\* an unresolvable row of a known area has just been skipped with a warning
\* and the run goes on
C8_Witness ==
    /\ pc = "rows" /\ rows # <<>>
    /\ RowType(rows[Len(rows)]) \in KnownTypes
    /\ RowReg(rows[Len(rows)]) = <<>>
    /\ locals[Len(locals)].rlocU = <<>>
    /\ InArea(RowTag(rows[Len(rows)]))
    /\ out # <<>> /\ out[Len(out)][1] = "skipped"
    /\ projects[RowProj(rows[Len(rows)])] = EmptyBlock

(* ------------------------------------------------------------------ *)
(* C9  crash atomicity of persistence                                   *)
(* ------------------------------------------------------------------ *)
\* C9: when a run is interrupted, every master map on disk is what it was
\* when the run started.
C9_CrashAtomic == pc = "crashed" => disk = diskStart

(* ------------------------------------------------------------------ *)
(* C10  fatal abort on missing columns                                  *)
(* ------------------------------------------------------------------ *)
\* the output files and the master map of the k-th project were written
Written(k) ==
    LET proj == loaded[k]
        blk  == projects[proj]
    IN  /\ MapStPath(proj) \in DOMAIN files
        /\ files[MapStPath(proj)] = MapStText(blk)
        /\ files[RvarsPath(proj)] = RvarsCsv(blk)
        /\ files[InitStPath(proj)] = InitStText(blk)
        /\ writes[3 * Len(loaded) + k] = <<map_path_for(proj), MapRows(io2r[proj])>>

\* C10: with a required column missing the run is aborted before any row
\* is processed, writes no file and leaves every master map unchanged;
\* otherwise the run is never aborted, and at its end it has written the
\* outputs and the master map of every project it loaded.
C10_AbortOrComplete ==
    LET missing == MissingColumns(fieldnames)
    IN  /\ (run > 0 /\ missing # {})
              => /\ pc = "aborted"
                 /\ rows = <<>> /\ locals = <<>> /\ loaded = <<>>
                 /\ writes = <<>> /\ files = EmptyDict /\ disk = diskStart
        /\ (run > 0 /\ missing = {})
              => /\ pc # "aborted"
                 /\ pc = "done" => \A k \in 1..Len(loaded) : Written(k)

\* a run was aborted on a header without the register column, on a disk
\* that holds a master map
C10_Witness ==
    /\ pc = "aborted" /\ "reg" \in MissingColumns(fieldnames)
    /\ disk # EmptyDict

(* ------------------------------------------------------------------ *)
(* C11  the register written is the table's                             *)
(* ------------------------------------------------------------------ *)
\* rows of this run that appended assignment lines and set an import record
Contributing == {i \in 1..Len(locals) :
                    /\ locals[i].typ \in KnownTypes
                    /\ Emits(locals[i].plcU, locals[i].r_sym)}

\* C11: for every row that contributed assignment lines and an import
\* record, the register it used is the entry of its tag in its project's
\* table, from that row on to the end of the run, and the symbol in its
\* lines is that register less "%"; a row declaring no register uses the
\* table's value.
C11_AuthoritativeRegister ==
    \A i \in Contributing :
        LET l == locals[i]
        IN  /\ l.proj \in DOMAIN io2r
            /\ l.plcU \in DOMAIN io2r[l.proj]
            /\ l.rlocU = io2r[l.proj][l.plcU]
            /\ l.r_sym = Replace(io2r[l.proj][l.plcU], <<"%">>, <<>>)
            /\ l.r_sym \in DOMAIN projects[l.proj].rvars

\* a completed run in which a row declaring no register contributed lines,
\* with the register its project's table holds for its tag
C11_Witness ==
    /\ pc = "done"
    /\ \E i \in Contributing :
          /\ RowReg(rows[i]) = <<>>
          /\ locals[i].rlocU = io2r[locals[i].proj][locals[i].plcU]
          /\ files[RvarsPath(locals[i].proj)][2][1] = locals[i].r_sym

(* ------------------------------------------------------------------ *)
(* C14  one declaration per destination register                        *)
(* ------------------------------------------------------------------ *)
\* the register symbol an assignment line of <proj>_map.st refers to
LineRegister(line) ==
    IF line[1] \in {"in_bool", "in"} THEN {line[3]}
    ELSE IF line[1] \in {"set1", "set0", "out"} THEN {line[2]}
    ELSE {}

\* the register symbols the assignment lines of a file refer to
Referenced(text) == UNION {LineRegister(text[k]) : k \in 1..Len(text)}

\* the entries of a generated file below its header line
Entries(text) == SubSeq(text, 2, Len(text))

\* the last row of the run that emitted lines for a register of a project
LastRowFor(proj, r) ==
    CHOOSE i \in Contributing :
        /\ locals[i].proj = proj /\ locals[i].r_sym = r
        /\ \A j \in Contributing :
              (locals[j].proj = proj /\ locals[j].r_sym = r) => j <= i

\* the symbol and the initial value a row gives its register
RowSymbol(row) == st_safe(OrElse(Strip(row.name), Strip(row.tag)))
RowInitial(row) == OrElse(Strip(row.init), <<"0">>)

\* C14: at the end of a run, for every project, the import file and the
\* preset file each hold exactly one entry for every register the
\* project's assignment lines refer to and none for any other register,
\* and the entry of a register is that of the last row that resolved to it.
C14_OneDeclarationPerRegister ==
    pc = "done" =>
      \A k \in 1..Len(loaded) :
        LET proj == loaded[k]
            refs == Referenced(files[MapStPath(proj)])
            imp  == Entries(files[RvarsPath(proj)])
            pre  == Entries(files[InitStPath(proj)])
        IN  /\ Len(imp) = Cardinality(refs)
            /\ Len(pre) = Cardinality(refs)
            /\ {imp[n][1] : n \in 1..Len(imp)} = refs
            /\ {pre[n][1] : n \in 1..Len(pre)} = refs
            /\ \A r \in refs :
                 LET i   == LastRowFor(proj, r)
                     row == rows[i]
                 IN  /\ \E n \in 1..Len(imp) :
                          imp[n] = <<r, ImportType(RowType(row)),
                                     <<"m","i","r","r","o","r"," ","o","f"," ">>
                                        \o RowSymbol(row),
                                     RowInitial(row), locals[i].rlocU>>
                     /\ \E n \in 1..Len(pre) :
                          pre[n] = <<r, st_literal(RowType(row), RowInitial(row)),
                                     RowSymbol(row)>>

\* a completed run in which two rows of one project with different initial
\* values resolved to the same register, the second one giving the preset
C14_Witness ==
    /\ pc = "done" /\ Len(rows) = 2
    /\ {1, 2} \subseteq Contributing
    /\ locals[1].proj = locals[2].proj /\ locals[1].r_sym = locals[2].r_sym
    /\ RowInitial(rows[1]) # RowInitial(rows[2])
    /\ Len(files[InitStPath(locals[2].proj)]) = 2
    /\ files[InitStPath(locals[2].proj)][2][2]
          = st_literal(RowType(rows[2]), RowInitial(rows[2]))

(* ------------------------------------------------------------------ *)
(* C16  rows without a register                                         *)
(* ------------------------------------------------------------------ *)
\* number of "no R-address" warnings among printed lines
Skipped(o) == Cardinality({i \in 1..Len(o) : o[i][1] = "skipped"})

\* the row of this step has a recognised type, declares no register and
\* finds no entry for its tag in its project's table
Unresolvable(row, tbl) ==
    /\ RowType(row) \in KnownTypes
    /\ RowReg(row) = <<>>
    /\ RowTag(row) \notin DOMAIN tbl

\* the area prefixes the row loop dispatches on
AreaPrefixes == { <<"%","I">>, <<"%","A","I">>, <<"%","R">>, <<"%","M">>,
                  <<"%","Q">>, <<"%","A","Q">> }

\* C16 as stated: every row of a recognised type whose register cannot be
\* resolved is skipped with a warning, whatever the prefix of its tag.
C16_Original ==
    [][RowStep =>
        (Unresolvable(StepRow, TableAt(ModState, disk, RowProj(StepRow)))
            => Skipped(out') = Skipped(out) + 1)]_vars

\* C16: a row of a recognised type whose register cannot be resolved emits
\* no line and no record and the run goes on; it prints one warning, naming
\* its project and tag, when its tag starts with one of the area prefixes
\* %I, %AI, %R, %M, %Q, %AQ, and prints nothing when it does not.
C16_WarnedInKnownArea ==
    [][RowStep =>
        LET row  == StepRow
            proj == RowProj(row)
        IN  Unresolvable(row, TableAt(ModState, disk, proj))
            => /\ pc' = "rows"
               /\ projects'[proj] = GetOr(projects, proj, EmptyBlock)
               /\ IF \E a \in AreaPrefixes : StartsWith(RowTag(row), a)
                  THEN out' = Append(out, <<"skipped", proj, Strip(row.tag),
                                            RowSymbol(row)>>)
                  ELSE out' = out]_vars

\* a row of a known area that declares no register and whose tag is in no
\* table has just been skipped, its warning being the last line printed
C16_Witness ==
    /\ pc = "rows" /\ rows # <<>>
    /\ RowType(rows[Len(rows)]) \in KnownTypes
    /\ RowReg(rows[Len(rows)]) = <<>>
    /\ RowTag(rows[Len(rows)]) \notin DOMAIN io2r[RowProj(rows[Len(rows)])]
    /\ StartsWith(RowTag(rows[Len(rows)]), <<"%","Q">>)
    /\ out # <<>> /\ out[Len(out)][1] = "skipped"
    /\ out[Len(out)][3] = Strip(rows[Len(rows)].tag)

(* ------------------------------------------------------------------ *)
(* C17  rows of an unrecognised type                                    *)
(* ------------------------------------------------------------------ *)
\* C17: a row whose type, trimmed and upper-cased, is none of BOOL, INT,
\* WORD, STRING leaves every table, the loaded projects, every output
\* buffer, the printed lines and the files unchanged, whatever its other
\* fields hold, and the row loop goes on.
C17_UnknownTypeNoOp ==
    [][(RowStep /\ Upper(Strip(StepRow.type))
                      \notin { <<"B","O","O","L">>, <<"I","N","T">>,
                               <<"W","O","R","D">>, <<"S","T","R","I","N","G">> })
        => /\ io2r' = io2r /\ loaded' = loaded /\ projects' = projects
           /\ out' = out /\ disk' = disk /\ files' = files
           /\ pc' = "rows"]_vars

\* a row of type REAL that declares a register for a tag of a known area,
\* in a project no earlier row named, has just been read: no project is
\* loaded and nothing is printed
C17_Witness ==
    /\ pc = "rows" /\ Len(rows) = 1
    /\ Upper(Strip(rows[1].type)) = <<"R","E","A","L">>
    /\ RowReg(rows[1]) # <<>> /\ InArea(RowTag(rows[1]))
    /\ loaded = <<>> /\ io2r = EmptyDict /\ projects = EmptyDict /\ out = <<>>
    /\ Len(locals) = 1

(* ------------------------------------------------------------------ *)
(* C18  the first declaration of a run wins                             *)
(* ------------------------------------------------------------------ *)
\* the table ensure_loaded reads for a project at its first row of the run
LoadedTable(proj) ==
    IF map_path_for(proj) \in DOMAIN diskStart
    THEN LoadRows(diskStart[map_path_for(proj)], EmptyDict)
    ELSE EmptyDict

\* the rows read so far, of a recognised type, that declare a register for
\* a tag of a project
Declaring(proj, tag) ==
    {j \in 1..Len(rows) :
        /\ RowType(rows[j]) \in KnownTypes
        /\ RowProj(rows[j]) = proj /\ RowTag(rows[j]) = tag
        /\ RowReg(rows[j]) # <<>>}

Least(S) == CHOOSE f \in S : \A j \in S : f <= j

\* C18: for a project and a tag that the table loaded from the project's
\* file does not hold, the table entry, and the register resolved for
\* every row of that project and tag from the first declaring row on, is
\* the register that first row declared, whatever later rows declare; a
\* project is loaded once in a run.
C18_FirstDeclarationWins ==
    /\ \A a, b \in 1..Len(loaded) : loaded[a] = loaded[b] => a = b
    /\ \A i \in 1..Len(locals) :
         LET proj == RowProj(rows[i])
             tag  == RowTag(rows[i])
             decl == Declaring(proj, tag)
         IN  (/\ RowType(rows[i]) \in KnownTypes
              /\ tag \notin DOMAIN LoadedTable(proj)
              /\ decl # {})
             => /\ proj \in DOMAIN io2r /\ tag \in DOMAIN io2r[proj]
                /\ io2r[proj][tag] = RowReg(rows[Least(decl)])
                /\ i >= Least(decl) => locals[i].rlocU = RowReg(rows[Least(decl)])

\* two rows of one project and tag declared different registers, the
\* project's file exists and does not hold the tag: the second row
\* resolved to the register of the first, which is the table's entry
C18_Witness ==
    /\ pc = "rows" /\ Len(rows) = 2
    /\ Declaring(RowProj(rows[1]), RowTag(rows[1])) = {1, 2}
    /\ RowReg(rows[1]) # RowReg(rows[2])
    /\ map_path_for(RowProj(rows[1])) \in DOMAIN diskStart
    /\ RowTag(rows[1]) \notin DOMAIN LoadedTable(RowProj(rows[1]))
    /\ locals[2].rlocU = RowReg(rows[1])
    /\ io2r[RowProj(rows[1])][RowTag(rows[1])] = RowReg(rows[1])

(* ------------------------------------------------------------------ *)
(* C19  no spurious conflict warning                                    *)
(* ------------------------------------------------------------------ *)
\* C19: a row prints at most one conflict warning, and prints one only if
\* it has a recognised type, declares a non-empty register, its tag is in
\* its project's table and the declared register differs from the table's
\* value: a blank register, an absent tag or an equal register never warns.
C19_NoSpuriousConflict ==
    [][RowStep =>
        LET row == StepRow
            tbl == TableAt(ModState, disk, RowProj(row))
        IN  /\ Conflicts(out') <= Conflicts(out) + 1
            /\ Conflicts(out') > Conflicts(out)
                 => /\ RowType(row) \in KnownTypes
                    /\ RowReg(row) # <<>>
                    /\ RowTag(row) \in DOMAIN tbl
                    /\ RowReg(row) # tbl[RowTag(row)]]_vars

\* a row declaring the register its project's table already holds for its
\* tag has just been read, and no conflict warning has been printed
C19_Witness ==
    /\ pc = "rows" /\ Len(rows) = 2
    /\ RowType(rows[2]) \in KnownTypes
    /\ RowReg(rows[2]) # <<>>
    /\ RowTag(rows[2]) \in DOMAIN TableBefore(2, RowProj(rows[2]))
    /\ RowReg(rows[2]) = TableBefore(2, RowProj(rows[2]))[RowTag(rows[2])]
    /\ Conflicts(out) = 0

(* ------------------------------------------------------------------ *)
(* C20  learning does not depend on output                              *)
(* ------------------------------------------------------------------ *)
\* C20: a row of a recognised type whose tag is absent from its project's
\* table and which declares a non-empty register adds the entry tag ->
\* register to the table even when the tag starts with none of the area
\* prefixes, in which case the row emits no line, no record and no warning.
C20_LearnsWithoutOutput ==
    [][RowStep =>
        LET row  == StepRow
            proj == RowProj(row)
            tbl  == TableAt(ModState, disk, proj)
        IN  (/\ RowType(row) \in KnownTypes
             /\ RowTag(row) \notin DOMAIN tbl
             /\ RowReg(row) # <<>>)
            => /\ io2r'[proj] = Put(tbl, RowTag(row), RowReg(row))
               /\ (~ \E a \in AreaPrefixes : StartsWith(RowTag(row), a))
                    => /\ projects'[proj] = GetOr(projects, proj, EmptyBlock)
                       /\ out' = out]_vars

\* a row whose tag starts with no area prefix has just declared a register:
\* the table holds the entry and no line, record or warning was produced
C20_Witness ==
    /\ pc = "rows" /\ Len(rows) = 1
    /\ RowType(rows[1]) \in KnownTypes
    /\ RowTag(rows[1]) = <<"X">>
    /\ RowTag(rows[1]) \notin DOMAIN LoadedTable(RowProj(rows[1]))
    /\ io2r[RowProj(rows[1])][<<"X">>] = RowReg(rows[1])
    /\ RowReg(rows[1]) # <<>>
    /\ projects[RowProj(rows[1])] = EmptyBlock /\ out = <<>>

(* ------------------------------------------------------------------ *)
(* C12  the range merge                                                 *)
(* ------------------------------------------------------------------ *)
\* the pairs parsed from the lines read, in file order
RECURSIVE ParseAll(_, _, _)
ParseAll(lines, rc, mc) ==
    IF lines = <<>> THEN <<>>
    ELSE ParseLine(ParseAll(SubSeq(lines, 1, Len(lines) - 1), rc, mc),
                   lines[Len(lines)], rc, mc)

Occurrences(seq, x) == Cardinality({k \in 1..Len(seq) : seq[k] = x})

\* the pairs covered by the first n blocks
RECURSIVE SumCounts(_, _)
SumCounts(ls, n) == IF n = 0 THEN 0 ELSE SumCounts(ls, n - 1) + ls[n].Count

\* C12: the pairs handed to the merge loop are the parsed pairs in
\* ascending order; when the loop has ended, the blocks, in order, each
\* start at the next pair not yet covered and cover exactly Count pairs
\* (start + k, address + k), the counts add up to the number of pairs,
\* their start registers do not decrease, no block is continued by the
\* first pair of the next one, no pair gives no block, and the pairs
\* (1017,1), (1018,2), (1019,3), (1025,9) give {R01017, 1, 3}, {R01025, 9, 1};
\* the blocks are written to the JSON document.
C12_RangeMerge ==
    /\ jpc \in {"merge", "done"} =>
         LET parsed == ParseAll(jinput, reg_col, mb_col)
         IN  /\ Len(jrows) = Len(parsed)
             /\ \A k \in 1..Len(parsed) :
                   Occurrences(jrows, parsed[k]) = Occurrences(parsed, parsed[k])
             /\ \A a, b \in 1..Len(jrows) : a < b => ~PairLess(jrows[b], jrows[a])
    /\ jpc = "done" =>
         /\ SumCounts(links, Len(links)) = Len(jrows)
         /\ jrows = <<>> => links = <<>>
         /\ \A k \in 1..Len(links) :
              LET at  == SumCounts(links, k - 1)
                  reg == jrows[at + 1][1]
                  mb  == jrows[at + 1][2]
                  cnt == links[k].Count
              IN  /\ cnt >= 1
                  /\ links[k].Plc = <<"R">> \o ZeroPad(reg, 5)
                  /\ links[k].Modbus = Decimal(mb)
                  /\ \A d \in 0..(cnt - 1) : jrows[at + d + 1] = <<reg + d, mb + d>>
                  /\ k < Len(links) =>
                        /\ jrows[at + cnt + 1] # <<reg + cnt, mb + cnt>>
                        /\ reg <= jrows[at + cnt + 1][1]
         /\ jrows = << <<1017, 1>>, <<1018, 2>>, <<1019, 3>>, <<1025, 9>> >>
              => links = << [Plc |-> <<"R","0","1","0","1","7">>, Modbus |-> <<"1">>,
                             Count |-> 3],
                            [Plc |-> <<"R","0","1","0","2","5">>, Modbus |-> <<"9">>,
                             Count |-> 1] >>
         /\ jfile[1].Plcs[1].Links = links

\* the four pairs of the example were read in another order and merged
\* into two blocks
C12_Witness ==
    /\ jpc = "done" /\ Len(jinput) = 4
    /\ jinput[1][1] = R01025
    /\ jrows = << <<1017, 1>>, <<1018, 2>>, <<1019, 3>>, <<1025, 9>> >>
    /\ Len(links) = 2 /\ links[1].Count = 3 /\ links[2].Count = 1

(* ------------------------------------------------------------------ *)
(* C13  duplicates in the register / address sheet                      *)
(* ------------------------------------------------------------------ *)
\* C13: a line whose address token is malformed, or repeats the token of
\* an earlier line, is dropped while parsing: the pairs handed to the merge
\* loop come from well-formed lines only and no pair occurs twice among
\* them, so no two blocks cover the same pair.
C13_DuplicatesDropped ==
    jpc \in {"merge", "done"} =>
        /\ \A k \in 1..Len(jrows) :
              \E n \in 1..Len(jinput) :
                 /\ Len(jinput[n]) > Max(reg_col, mb_col)
                 /\ jrows[k] = <<parse_reg(jinput[n][reg_col + 1]),
                                 parse_mb(jinput[n][mb_col + 1])>>
        /\ \A a, b \in 1..Len(jrows) : jrows[a] = jrows[b] => a = b
        /\ \A a, b \in 1..Len(links) : links[a] = links[b] => a = b

(* ------------------------------------------------------------------ *)
(* C15  the BOOL preset literal                                         *)
(* ------------------------------------------------------------------ *)
\* C15: the preset literal of a BOOL row is 1 exactly when its initial
\* value, trimmed and compared without regard to case, is one of 1, TRUE,
\* T, YES, and 0 for every other value; the empty value, "0" and "no"
\* give 0.
C15_BoolLiteral ==
    (lpc = "preset" /\ RowType(litRow) = <<"B","O","O","L">>) =>
        /\ Len(litText) = 2
        /\ litText[2][2] \in { <<"0">>, <<"1">> }
        /\ litText[2][2] = <<"1">>
             <=> Lower(Strip(litRow.init))
                    \in { <<"1">>, <<"t","r","u","e">>, <<"t">>, <<"y","e","s">> }
        /\ Strip(litRow.init) \in { <<>>, <<"0">>, <<"n","o">> }
             => litText[2][2] = <<"0">>

\* the preset of a BOOL row whose initial value is " yEs" is 1
C15_Witness ==
    /\ lpc = "preset" /\ RowType(litRow) = <<"B","O","O","L">>
    /\ litRow.init = <<" ","y","E","s">>
    /\ litText[2] = << <<"R","1">>, <<"1">>, <<"_","I","1">> >>

====
